---- MODULE Spec2Model ----
(***************************************************************************)
(* Model of mldatafind/io.py: the catalog sorter filter_and_sort_files     *)
(* and the archive codec read_timeseries / write_timeseries.               *)
(*                                                                         *)
(* Text (file names, path strings) is a sequence of one-character strings  *)
(* so that the regular expression, the formatting of numbers and the       *)
(* comparison of strings are computed character by character.              *)
(***************************************************************************)
EXTENDS Integers, Sequences, FiniteSets, TLC

VARIABLES fs, result

vars == <<fs, result>>

(***************************************************************************)
(* Characters and strings                                                  *)
(***************************************************************************)

\* the characters of the model in code point order, as str.__lt__ sees them
Ascii ==
    << "\n", " ", "-", ".", "/",
       "0", "1", "2", "3", "4", "5", "6", "7", "8", "9", ":",
       "A", "B", "C", "D", "E", "F", "G", "H", "I", "J", "K", "L", "M",
       "N", "O", "P", "Q", "R", "S", "T", "U", "V", "W", "X", "Y", "Z", "_",
       "a", "b", "c", "d", "e", "f", "g", "h", "i", "j", "k", "l", "m",
       "n", "o", "p", "q", "r", "s", "t", "u", "v", "w", "x", "y", "z" >>

Ord(c) == CHOOSE i \in 1..Len(Ascii) : Ascii[i] = c

DigitChars == <<"0", "1", "2", "3", "4", "5", "6", "7", "8", "9">>

IsDigit(c) == \E i \in 1..10 : DigitChars[i] = c

IsLetter(c) == (Ord("A") <= Ord(c) /\ Ord(c) <= Ord("Z"))
               \/ (Ord("a") <= Ord(c) /\ Ord(c) <= Ord("z"))

\* s[a..b], empty when a > b
Sub(s, a, b) == [i \in 1..(b - a + 1) |-> s[a + i - 1]]

\* str.__lt__: the first differing character decides, a proper prefix is less
StrLT(a, b) ==
    \/ \E k \in 1..Len(a) :
          /\ k <= Len(b)
          /\ \A j \in 1..(k - 1) : a[j] = b[j]
          /\ Ord(a[k]) < Ord(b[k])
    \/ /\ Len(a) < Len(b)
       /\ \A j \in 1..Len(a) : a[j] = b[j]

\* str(int) of a non-negative int
RECURSIVE IntStr(_)
IntStr(n) == IF n < 10 THEN <<DigitChars[n + 1]>>
             ELSE IntStr(n \div 10) \o <<DigitChars[(n % 10) + 1]>>

(***************************************************************************)
(* Floats: a float is the exact rational num/den in lowest terms. The      *)
(* floats of the model are whole numbers and their quotients by the        *)
(* sample rates of SampleRates, all exactly representable.                 *)
(***************************************************************************)

RECURSIVE GCD(_, _)
GCD(a, b) == IF b = 0 THEN a ELSE GCD(b, a % b)

Float(n) == [num |-> n, den |-> 1]

\* len(dataset) / sample_rate
TrueDiv(n, rate) ==
    LET p == n * rate.den
        q == rate.num
        g == GCD(p, q)
    IN [num |-> p \div g, den |-> q \div g]

\* int(x) == x
IsIntegral(x) == x.den = 1

\* int(x)
ToInt(x) == x.num \div x.den

\* the digits after the decimal point of r/d, 0 <= r < d
RECURSIVE FracStr(_, _)
FracStr(r, d) == IF r = 0 THEN <<>>
                 ELSE <<DigitChars[((r * 10) \div d) + 1]>>
                      \o FracStr((r * 10) % d, d)

\* str(float): a whole float prints with a trailing ".0"
FloatStr(x) ==
    LET r == x.num % x.den
    IN IntStr(x.num \div x.den) \o <<".">>
       \o (IF r = 0 THEN <<"0">> ELSE FracStr(r, x.den))

(***************************************************************************)
(* The file name grammar                                                   *)
(***************************************************************************)

\* prefix_re = "[a-zA-Z0-9_:-]+"
IsPrefixChar(c) == IsLetter(c) \/ IsDigit(c) \/ c \in {"_", ":", "-"}

\* t0_re = "[0-9]{10}"
T0Digits == 10

\* length_re = "[1-9][0-9]{0,3}"
MaxLengthDigits == 4

IsLength(s) ==
    /\ Len(s) >= 1
    /\ Len(s) <= MaxLengthDigits
    /\ s[1] # "0"
    /\ \A i \in 1..Len(s) : IsDigit(s[i])

\* (?P<suffix>gwf|hdf5|h5)
Suffixes == { <<"g", "w", "f">>, <<"h", "d", "f", "5">>, <<"h", "5">> }

NoMatch == [matched |-> FALSE, prefix |-> <<>>, t0 |-> <<>>,
            length |-> <<>>, suffix |-> <<>>, string |-> <<>>]

\* every way the tail "-<t0>-<length>.<suffix>$" of fname_re matches in s:
\* the length group has n characters and the match ends at e
TailsOf(s) ==
    { c \in [n : 1..MaxLengthDigits, suffix : Suffixes,
             e : {Len(s), Len(s) - 1}] :
        LET d  == c.e - Len(c.suffix)       \* the character matched by "."
            h2 == d - c.n - 1               \* the "-" before length
            h1 == h2 - T0Digits - 1         \* the "-" before t0
        IN /\ \/ c.e = Len(s)               \* "$": the end, or before a
              \/ s[Len(s)] = "\n"           \*      final newline
           /\ h1 > 1
           /\ Sub(s, d + 1, c.e) = c.suffix
           /\ s[d] # "\n"                   \* "." is any character but "\n"
           /\ IsLength(Sub(s, d - c.n, d - 1))
           /\ s[h2] = "-"
           /\ \A i \in (h1 + 1)..(h2 - 1) : IsDigit(s[i])
           /\ s[h1] = "-"
           /\ IsPrefixChar(s[h1 - 1]) }

\* fname_re.search(s): the leftmost match, or None. The prefix group is
\* greedy and the search takes the leftmost start, so the prefix is the
\* whole run of prefix characters that ends before "-<t0>"
Search(s) ==
    LET ts == TailsOf(s)
    IN IF ts = {} THEN NoMatch
       ELSE LET c  == CHOOSE c \in ts : TRUE
                d  == c.e - Len(c.suffix)
                h2 == d - c.n - 1
                h1 == h2 - T0Digits - 1
                p  == CHOOSE p \in 1..(h1 - 1) :
                         /\ \A i \in p..(h1 - 1) : IsPrefixChar(s[i])
                         /\ p = 1 \/ ~IsPrefixChar(s[p - 1])
            IN [matched |-> TRUE,
                prefix  |-> Sub(s, p, h1 - 1),
                t0      |-> Sub(s, h1 + 1, h2 - 1),
                length  |-> Sub(s, d - c.n, d - 1),
                suffix  |-> c.suffix,
                string  |-> s]

(***************************************************************************)
(* Outcomes of a call: a returned value, or a raised exception whose       *)
(* message is the format text and the values formatted into it             *)
(***************************************************************************)

NoValue == <<>>

Returns(v) == [status |-> "ok", value |-> v, text |-> "", fmt |-> <<>>]

Raises(kind, text, fmt) ==
    [status |-> kind, value |-> NoValue, text |-> text, fmt |-> fmt]

(***************************************************************************)
(* Path-like identifiers: a pathlib.Path or a str, with its text           *)
(***************************************************************************)

PathOf(text) == [type |-> "Path", text |-> text]

StrOf(text) == [type |-> "str", text |-> text]

\* the text without its trailing "/" characters
RECURSIVE StripSlashes(_)
StripSlashes(s) == IF Len(s) > 0 /\ s[Len(s)] = "/"
                   THEN StripSlashes(Sub(s, 1, Len(s) - 1))
                   ELSE s

\* Path(text).name: the terminal component of the path
PathName(text) ==
    LET t == StripSlashes(text)
        cuts == {i \in 1..Len(t) : t[i] = "/"}
        last == IF cuts = {} THEN 0
                ELSE CHOOSE i \in cuts : \A j \in cuts : j <= i
    IN Sub(t, last + 1, Len(t))

\* the components of a relative path
RECURSIVE PathParts(_)
PathParts(text) ==
    LET t == StripSlashes(text)
        cuts == {i \in 1..Len(t) : t[i] = "/"}
        last == IF cuts = {} THEN 0
                ELSE CHOOSE i \in cuts : \A j \in cuts : j <= i
    IN IF Len(t) = 0 THEN <<>>
       ELSE PathParts(Sub(t, 1, last)) \o <<Sub(t, last + 1, Len(t))>>

\* PurePath.__lt__: the lists of components are compared
PartsLT(a, b) ==
    \/ \E k \in 1..Len(a) :
          /\ k <= Len(b)
          /\ \A j \in 1..(k - 1) : a[j] = b[j]
          /\ StrLT(a[k], b[k])
    \/ /\ Len(a) < Len(b)
       /\ \A j \in 1..Len(a) : a[j] = b[j]

\* f1 == f2 for two identifiers of one type
IdEq(f, g) == IF f.type = "Path" THEN PathParts(f.text) = PathParts(g.text)
              ELSE f.text = g.text

\* f1 < f2 for two identifiers of one type
IdLT(f, g) == IF f.type = "Path"
              THEN PartsLT(PathParts(f.text), PathParts(g.text))
              ELSE StrLT(f.text, g.text)

\* path / child
JoinPath(dir, child) == PathOf(StripSlashes(dir) \o <<"/">> \o child)

(***************************************************************************)
(* The directory tree: fs maps the name of each file of the one directory  *)
(* WriteDir to its content                                                 *)
(***************************************************************************)

WriteDir == <<"d">>

\* Path.is_dir()
IsDir(text) == StripSlashes(text) = WriteDir

(***************************************************************************)
(* filter_and_sort_files                                                   *)
(***************************************************************************)

\* a sort that looks at the identifier before the timestamp
TupleCompareByName(a, b) ==
    IF ~IdEq(a.f, b.f) THEN (IF IdLT(a.f, b.f) THEN "lt" ELSE "ge")
    ELSE IF a.t0 # b.t0 THEN (IF StrLT(a.t0, b.t0) THEN "lt" ELSE "ge")
    ELSE "TypeError"

\* (t0, f, m) < (t0', f', m'): the first unequal pair of elements decides;
\* two match objects are never equal and have no order
TupleCompare(a, b) ==
    IF a.t0 # b.t0 THEN (IF StrLT(a.t0, b.t0) THEN "lt" ELSE "ge")
    ELSE IF ~IdEq(a.f, b.f) THEN (IF IdLT(a.f, b.f) THEN "lt" ELSE "ge")
    ELSE "TypeError"

\* one step of the insertion: x moves left past every element it is less
\* than; the result is the list, or the TypeError of a comparison
RECURSIVE Insert(_, _, _)
Insert(acc, x, k) ==
    IF k = 0 THEN [ok |-> TRUE, list |-> <<x>> \o acc]
    ELSE LET c == TupleCompare(x, acc[k])
         IN IF c = "TypeError" THEN [ok |-> FALSE, list |-> <<>>]
            ELSE IF c = "lt" THEN Insert(acc, x, k - 1)
            ELSE [ok |-> TRUE,
                  list |-> Sub(acc, 1, k) \o <<x>> \o Sub(acc, k + 1, Len(acc))]

\* sorted(tups): stable, raises when a comparison raises
RECURSIVE Sorted(_)
Sorted(tups) ==
    IF Len(tups) = 0 THEN [ok |-> TRUE, list |-> <<>>]
    ELSE LET acc == Sorted(Sub(tups, 1, Len(tups) - 1))
         IN IF ~acc.ok THEN acc
            ELSE Insert(acc.list, tups[Len(tups)], Len(acc.list))

\* [... for m, f in matches if m is not None]
RECURSIVE SelectTups(_)
SelectTups(s) ==
    IF Len(s) = 0 THEN <<>>
    ELSE SelectTups(Sub(s, 1, Len(s) - 1))
         \o (IF s[Len(s)].m.matched THEN <<s[Len(s)]>> ELSE <<>>)

\* ", ".join(items): every item must be a str
JoinStrs(items) == IF \A i \in 1..Len(items) : items[i].type = "str"
                   THEN "ok" ELSE "TypeError"

\* lines 59-67: match the names, keep the matches, sort, project
SortMatches(fname_it, fnames, return_matches) ==
    LET tups == SelectTups([i \in 1..Len(fnames) |->
                              LET m == Search(fname_it[i])
                              IN [t0 |-> m.t0, f |-> fnames[i], m |-> m]])
        sorted == Sorted(tups)
    IN IF ~sorted.ok
       THEN Raises("TypeError", "'<' not supported between instances of "
                                \o "'re.Match' and 're.Match'", <<>>)
       ELSE Returns([i \in 1..Len(sorted.list) |->
                       IF return_matches THEN sorted.list[i].m
                       ELSE sorted.list[i].f])

\* source is one path-like (single) or a collection of them (items);
\* listing is the order in which iterdir() yields the directory's children
FilterAndSortFiles(source, return_matches, listing) ==
    IF source.single
    THEN IF ~IsDir(source.item.text)
         THEN Raises("ValueError", "'{}' is not a directory",
                     <<source.item.text>>)
         ELSE SortMatches(listing,
                          [i \in 1..Len(listing) |->
                              JoinPath(source.item.text, listing[i])],
                          return_matches)
    ELSE LET fnames == source.items
         IN IF \A i \in 1..Len(fnames) : fnames[i].type = "Path"
            THEN SortMatches([i \in 1..Len(fnames) |->
                                PathName(fnames[i].text)],
                             fnames, return_matches)
            ELSE IF ~(\A i \in 1..Len(fnames) : fnames[i].type = "str")
            THEN IF JoinStrs([i \in 1..Len(fnames) |->
                        [type |-> "type", text |-> fnames[i].type]]) = "ok"
                 THEN Raises("ValueError",
                             "'fnames' must either be a path to a directory "
                             \o "or an iterable containing either all "
                             \o "strings or all 'pathlib.Path' objects, "
                             \o "instead found {}",
                             <<[i \in 1..Len(fnames) |-> fnames[i].type]>>)
                 ELSE Raises("TypeError", "sequence item 0: expected str "
                                          \o "instance, type found", <<>>)
            ELSE SortMatches([i \in 1..Len(fnames) |->
                                PathName(fnames[i].text)],
                             fnames, return_matches)

(***************************************************************************)
(* The archive codec                                                       *)
(***************************************************************************)

\* a file that is not an HDF5 archive
OtherFile == [kind |-> "other", attrs |-> <<>>, datasets |-> <<>>]

\* h5py.File(fname, "w"): the file is created, or truncated if it exists
NewArchive == [kind |-> "hdf5", attrs |-> <<>>, datasets |-> <<>>]

\* attrs and datasets are lists of (key, value) with distinct keys
Keys(kv) == {kv[i].key : i \in 1..Len(kv)}

Lookup(kv, k) == kv[CHOOSE i \in 1..Len(kv) : kv[i].key = k].value

\* kv[k] = v: replaces the value of k, or appends k
Assign(kv, k, v) ==
    IF k \in Keys(kv)
    THEN [i \in 1..Len(kv) |-> IF kv[i].key = k
                                THEN [key |-> k, value |-> v] ELSE kv[i]]
    ELSE Append(kv, [key |-> k, value |-> v])

\* a loop that gives every dataset the first sample rate
RECURSIVE WriteChannelsFirstRate(_, _, _, _, _)
WriteChannelsFirstRate(f, t0, channels, rates, i) ==
    IF i > Len(channels) THEN f
    ELSE WriteChannelsFirstRate(
            [f EXCEPT !.attrs = Assign(f.attrs, "t0", t0),
                      !.datasets = Assign(f.datasets, channels[i].key,
                                          [data |-> channels[i].value,
                                           sample_rate |-> rates[1]])],
            t0, channels, rates, i + 1)

\* the body of "for i, (key, value) in enumerate(channels.items())",
\* from the i-th channel on
RECURSIVE WriteChannels(_, _, _, _, _)
WriteChannels(f, t0, channels, rates, i) ==
    IF i > Len(channels) THEN f
    ELSE WriteChannels(
            [f EXCEPT !.attrs = Assign(f.attrs, "t0", t0),
                      !.datasets = Assign(f.datasets, channels[i].key,
                                          [data |-> channels[i].value,
                                           sample_rate |-> rates[i]])],
            t0, channels, rates, i + 1)

\* [sample_rate] * len(channels)
Repeat(x, n) == [i \in 1..n |-> x]

\* a check that only rejects too few sample rates
TooFewRates(rates, channels) == Len(rates) < Len(channels)

\* len(sample_rate) != len(channels)
CardinalityMismatch(rates, channels) == Len(rates) # Len(channels)

Min(a, b) == IF a < b THEN a ELSE b

\* durations that count the samples and forget the rate
SampleCounts(channels, rates) ==
    [i \in 1..Min(Len(channels), Len(rates)) |->
        Float(Len(channels[i].value))]

\* [len(dataset) / sample_rate for dataset, sample_rate in zip(...)]
Durations(channels, rates) ==
    [i \in 1..Min(Len(channels), Len(rates)) |->
        TrueDiv(Len(channels[i].value), rates[i])]

\* f"{prefix}-{t0}-{length}.hdf5", length an int when it is a whole number
ArchiveName(prefix, t0, length) ==
    prefix \o <<"-">> \o FloatStr(t0) \o <<"-">>
    \o (IF IsIntegral(length) THEN IntStr(ToInt(length))
        ELSE FloatStr(length))
    \o <<".", "h", "d", "f", "5">>

\* the directory after store[name] = f
Put(store, name, f) ==
    [n \in DOMAIN store \cup {name} |-> IF n = name THEN f ELSE store[n]]

\* a writer that opens the archive before it compares the durations
WriteTimeseriesOpenFirst(store, t0, sample_rate, prefix, channels) ==
    LET rates == IF sample_rate.type = "float"
                 THEN Repeat(sample_rate.float, Len(channels))
                 ELSE sample_rate.list
    IN IF CardinalityMismatch(rates, channels)
       THEN [out |-> Raises("ValueError",
                            "Only {} sample rates provided for {} channels",
                            <<Len(rates), Len(channels)>>),
             fs |-> store]
       ELSE LET lengths == Durations(channels, rates)
            IN IF Len(lengths) = 0
               THEN [out |-> Raises("IndexError",
                                    "list index out of range", <<>>),
                     fs |-> store]
               ELSE LET name == ArchiveName(prefix, t0, lengths[1])
                    IN IF Cardinality({lengths[i] :
                                         i \in 1..Len(lengths)}) # 1
                       THEN [out |-> Raises("ValueError",
                                "Duration of datasets must all be equal",
                                <<>>),
                             fs |-> Put(store, name, NewArchive)]
                       ELSE [out |-> Returns(JoinPath(WriteDir, name)),
                             fs |-> Put(store, name,
                                        WriteChannels(NewArchive, t0,
                                                      channels, rates, 1))]

\* sample_rate is a float (type "float", in its field float) or a list of
\* floats (type "list", in its field list); channels is the list of
\* (key, value) of the keyword arguments. The result is the outcome and
\* the directory after the call.
WriteTimeseries(store, t0, sample_rate, prefix, channels) ==
    LET rates == IF sample_rate.type = "float"
                 THEN Repeat(sample_rate.float, Len(channels))
                 ELSE sample_rate.list
    IN IF CardinalityMismatch(rates, channels)
       THEN [out |-> Raises("ValueError",
                            "Only {} sample rates provided for {} channels",
                            <<Len(rates), Len(channels)>>),
             fs |-> store]
       ELSE LET lengths == Durations(channels, rates)
            IN IF Cardinality({lengths[i] : i \in 1..Len(lengths)}) # 1
               THEN [out |-> Raises("ValueError",
                                    "Duration of datasets must all be equal",
                                    <<>>),
                     fs |-> store]
               ELSE LET name == ArchiveName(prefix, t0, lengths[1])
                        f == WriteChannels(NewArchive, t0, channels, rates, 1)
                    IN [out |-> Returns(JoinPath(WriteDir, name)),
                        fs |-> Put(store, name, f)]

\* the attributes of a pathlib.Path object that hold part of its text
PathAttributes == {"name", "parent", "stem", "suffix", "parts"}

\* the file at path, if path names a file of the directory
HasFile(store, path) ==
    \E n \in DOMAIN store : JoinPath(WriteDir, n).text = path.text

FileAt(store, path) ==
    store[CHOOSE n \in DOMAIN store : JoinPath(WriteDir, n).text = path.text]

\* the body of "for channel in channels", from the i-th name on
RECURSIVE ReadChannels(_, _, _, _, _)
ReadChannels(f, path, channels, ts_dict, i) ==
    IF i > Len(channels) THEN Returns(ts_dict)
    ELSE IF channels[i] \notin Keys(f.datasets)
    THEN \* the handler of KeyError formats path.fname into the message
         IF "fname" \in PathAttributes
         THEN Raises("ValueError", "Data file {} doesn't contain channel {}",
                     <<path.text, channels[i]>>)
         ELSE Raises("AttributeError",
                     "'PosixPath' object has no attribute 'fname'", <<>>)
    ELSE LET dataset == Lookup(f.datasets, channels[i])
         IN ReadChannels(f, path, channels,
                         Assign(ts_dict, channels[i],
                                [data |-> dataset.data,
                                 t0 |-> Lookup(f.attrs, "t0"),
                                 sample_rate |-> dataset.sample_rate]),
                         i + 1)

ReadTimeseries(store, path, channels) ==
    IF ~HasFile(store, path)
    THEN Raises("OSError", "Unable to open file {}", <<path.text>>)
    ELSE LET f == FileAt(store, path)
         IN IF f.kind # "hdf5"
            THEN Raises("OSError", "Unable to open file {}", <<path.text>>)
            ELSE IF "t0" \notin Keys(f.attrs)
            THEN Raises("KeyError", "Can't open attribute {}", <<"t0">>)
            ELSE ReadChannels(f, path, channels, <<>>, 1)

(***************************************************************************)
(* The inputs of the calls                                                 *)
(***************************************************************************)

MaxSamples == 2

MaxArchives == 2

MaxRequest == 2

MaxItems == 3

ChannelKeys == <<"x", "y">>

\* the samples of the k-th channel: n samples of a square wave whose
\* phase is k
Samples(k, n) == [j \in 1..n |-> (k + j) % 2]

\* the keyword arguments: the first k keys, each with 1 to MaxSamples samples
ChannelSets ==
    UNION { { [i \in 1..k |-> [key |-> ChannelKeys[i],
                               value |-> Samples(i, n[i])]] :
              n \in [1..k -> 1..MaxSamples] } : k \in 0..Len(ChannelKeys) }

SampleRates == {Float(1), Float(2)}

RateSpecs ==
    {[type |-> "float", float |-> r, list |-> <<>>] : r \in SampleRates}
    \cup {[type |-> "list", float |-> Float(0), list |-> l] :
            l \in UNION {[1..k -> SampleRates] : k \in 0..Len(ChannelKeys)}}

T0s == {Float(1000000000), Float(1000000001)}

Prefixes == {<<"H", "1">>}

\* the channel names a reader asks for
RequestKeys == {"x", "y", "z"}

Requests == UNION {[1..k -> RequestKeys] : k \in 0..MaxRequest}

\* <prefix>-<t0>-<rest>
SegmentName(prefix, t0, rest) ==
    prefix \o <<"-">> \o IntStr(t0) \o <<"-">> \o rest

\* frame files that other programs left in the directory, and the name
\* of a file that is no segment
FrameA == SegmentName(<<"H", "1">>, 1000000002, <<"1", ".", "g", "w", "f">>)

FrameB == SegmentName(<<"L", "1">>, 1000000001, <<"2", "0", ".", "h", "5">>)

Readme == <<"R", "E", "A", "D", "M", "E">>

Directory(names) == [n \in names |-> OtherFile]

\* file names that violate the grammar
DotName == SegmentName(<<"H", "1">>, 1000000001, <<"1", "x", "h", "5">>)

SpaceName == SegmentName(<<"a", " ", "b">>, 1000000000, <<"1", ".", "h", "5">>)

ShortT0Name == SegmentName(<<"H", "1">>, 100000000, <<"1", ".", "h", "5">>)

ZeroLengthName == SegmentName(<<"H", "1">>, 1000000002, <<"0", ".", "h", "5">>)

NewlineName == FrameB \o <<"\n">>

\* a path of another directory with a grammatical terminal name
NestedName == <<"e", "/">> \o SegmentName(<<"H", "1">>, 1000000001,
                                         <<"2", "0", ".", "h", "5">>)

CandidateTexts == {FrameA, FrameB, Readme, DotName, NestedName}

Identifiers == {PathOf(t) : t \in CandidateTexts}
               \cup {StrOf(t) : t \in CandidateTexts}

Collections == UNION {[1..k -> Identifiers] : k \in 0..MaxItems}

\* the single paths given as a source
SinglePaths == {PathOf(WriteDir), StrOf(WriteDir \o <<"/">>),
                StrOf(<<"n", "o", "d", "i", "r">>),
                JoinPath(WriteDir, FrameB)}

\* the orders in which iterdir() can yield the names of a directory
Listings(store) ==
    {l \in [1..Cardinality(DOMAIN store) -> DOMAIN store] :
        \A i, j \in DOMAIN l : i # j => l[i] # l[j]}

(***************************************************************************)
(* The calls: result holds the last call of the client, its arguments and  *)
(* its outcome, until the client takes it                                  *)
(***************************************************************************)

NoCall == [op |-> "none", args |-> <<>>, out |-> Returns(NoValue)]

Archives(store) == {n \in DOMAIN store : store[n].kind = "hdf5"}

Write ==
    /\ result.op = "none"
    /\ \E t0 \in T0s, sample_rate \in RateSpecs, prefix \in Prefixes,
          channels \in ChannelSets :
          LET w == WriteTimeseries(fs, t0, sample_rate, prefix, channels)
          IN /\ Cardinality(Archives(w.fs)) <= MaxArchives
             /\ fs' = w.fs
             /\ result' = [op |-> "write",
                           args |-> [t0 |-> t0, sample_rate |-> sample_rate,
                                     prefix |-> prefix, channels |-> channels],
                           out |-> w.out]

Read ==
    /\ result.op = "none"
    /\ \E path \in {JoinPath(WriteDir, n) : n \in DOMAIN fs \cup {Readme}},
          channels \in Requests :
          /\ result' = [op |-> "read",
                        args |-> [path |-> path, channels |-> channels],
                        out |-> ReadTimeseries(fs, path, channels)]
          /\ UNCHANGED fs

SortDirectory ==
    /\ result.op = "none"
    /\ \E item \in SinglePaths, return_matches \in BOOLEAN,
          listing \in Listings(fs) :
          /\ result' = [op |-> "sort",
                        args |-> [source |-> [single |-> TRUE, item |-> item,
                                              items |-> <<>>],
                                  return_matches |-> return_matches,
                                  listing |-> listing],
                        out |-> FilterAndSortFiles(
                                   [single |-> TRUE, item |-> item,
                                    items |-> <<>>],
                                   return_matches, listing)]
          /\ UNCHANGED fs

SortCollection ==
    /\ result.op = "none"
    /\ \E items \in Collections, return_matches \in BOOLEAN :
          /\ result' = [op |-> "sort",
                        args |-> [source |-> [single |-> FALSE,
                                              item |-> PathOf(<<>>),
                                              items |-> items],
                                  return_matches |-> return_matches,
                                  listing |-> <<>>],
                        out |-> FilterAndSortFiles(
                                   [single |-> FALSE, item |-> PathOf(<<>>),
                                    items |-> items],
                                   return_matches, <<>>)]
          /\ UNCHANGED fs

\* the client takes the outcome of the call
Return ==
    /\ result.op # "none"
    /\ result' = NoCall
    /\ UNCHANGED fs

Init ==
    /\ fs = Directory({FrameB})
    /\ result = NoCall

Next == Write \/ Read \/ SortDirectory \/ Return

Spec == Init /\ [][Next]_vars

\* the sorter alone, over every directory and collection of the inputs
InitSort ==
    /\ fs \in {Directory({}), Directory({Readme}),
               Directory({FrameA, FrameB, Readme}),
               Directory({FrameA, FrameB, DotName, NewlineName}),
               Directory({FrameA, SpaceName, ShortT0Name, ZeroLengthName})}
    /\ result = NoCall

NextSort == SortDirectory \/ SortCollection \/ Return

SpecSort == InitSort /\ [][NextSort]_vars

(***************************************************************************)
(* Properties                                                              *)
(***************************************************************************)

Range(q) == {q[i] : i \in 1..Len(q)}

\* the state reached by a call of op
Called(op) == result.op = op

\* the sample rate that the arguments of a write give to its i-th channel
RateGiven(args, i) == IF args.sample_rate.type = "float"
                      THEN args.sample_rate.float
                      ELSE args.sample_rate.list[i]

RatesGiven(args) == IF args.sample_rate.type = "float"
                    THEN Len(args.channels)
                    ELSE Len(args.sample_rate.list)

\* len(x) / rx = len(y) / ry, without a division
SameDuration(x, rx, y, ry) ==
    Len(x) * rx.den * ry.num = Len(y) * ry.den * rx.num

\* C1: after a successful write, reading the returned path with the names
\* of the written channels returns, for each channel in turn, the samples
\* and the sample rate that were written and the start time that was written
RoundTrip ==
    (Called("write") /\ result.out.status = "ok") =>
        LET a == result.args
            names == [i \in 1..Len(a.channels) |-> a.channels[i].key]
            r == ReadTimeseries(fs, result.out.value, names)
        IN /\ r.status = "ok"
           /\ Len(r.value) = Len(names)
           /\ \A i \in 1..Len(names) :
                 /\ r.value[i].key = names[i]
                 /\ r.value[i].value.data = a.channels[i].value
                 /\ r.value[i].value.sample_rate = RateGiven(a, i)
                 /\ r.value[i].value.t0 = a.t0

\* two channels with different samples and different rates were written
RoundTripWitness ==
    /\ Called("write")
    /\ result.out.status = "ok"
    /\ Len(result.args.channels) = 2
    /\ result.args.sample_rate.type = "list"
    /\ result.args.sample_rate.list[1] # result.args.sample_rate.list[2]
    /\ Len(result.args.channels[1].value) # Len(result.args.channels[2].value)

\* C5: a write of one or more channels with as many sample rates raises
\* ValueError exactly when two channels differ in duration, and returns
\* otherwise
DurationValidation ==
    (/\ Called("write")
     /\ Len(result.args.channels) > 0
     /\ RatesGiven(result.args) = Len(result.args.channels)) =>
        LET a == result.args
            equal == \A i, j \in 1..Len(a.channels) :
                        SameDuration(a.channels[i].value, RateGiven(a, i),
                                     a.channels[j].value, RateGiven(a, j))
        IN /\ result.out.status \in {"ok", "ValueError"}
           /\ result.out.status = "ValueError" <=> ~equal
           /\ result.out.status = "ValueError" =>
                 result.out.text = "Duration of datasets must all be equal"

\* channels of different rates and sample counts and one duration were
\* accepted
DurationValidationWitness ==
    /\ Called("write")
    /\ result.out.status = "ok"
    /\ Len(result.args.channels) = 2
    /\ RateGiven(result.args, 1) # RateGiven(result.args, 2)
    /\ Len(result.args.channels[1].value) # Len(result.args.channels[2].value)

\* C6: a write with a list of sample rates whose length is not the number
\* of channels raises the ValueError that reports both counts, whatever the
\* durations are; a write with one float never raises that error
CardinalityValidation ==
    Called("write") =>
        LET a == result.args
            counts == "Only {} sample rates provided for {} channels"
        IN IF a.sample_rate.type = "list"
              /\ Len(a.sample_rate.list) # Len(a.channels)
           THEN /\ result.out.status = "ValueError"
                /\ result.out.text = counts
                /\ result.out.fmt = <<Len(a.sample_rate.list),
                                      Len(a.channels)>>
           ELSE result.out.text # counts

\* one rate was given for two channels of different sample counts
CardinalityValidationWitness ==
    /\ Called("write")
    /\ result.args.sample_rate.type = "list"
    /\ Len(result.args.sample_rate.list) = 1
    /\ Len(result.args.channels) = 2
    /\ Len(result.args.channels[1].value) # Len(result.args.channels[2].value)
    /\ result.out.status = "ValueError"

\* C9: a write that raises ValueError leaves every file of the directory
\* as it was and creates none
ValidationFrame ==
    [][(result'.op = "write" /\ result'.out.status = "ValueError")
          => fs' = fs]_vars

\* a write failed its validation while an archive was in the directory
ValidationFrameWitness ==
    /\ Called("write")
    /\ result.out.status = "ValueError"
    /\ result.out.text = "Duration of datasets must all be equal"
    /\ Archives(fs) # {}

\* the terminal name of every candidate of a sort, in input order
SortCandidates(args) ==
    IF args.source.single
    THEN [i \in 1..Len(args.listing) |->
            JoinPath(args.source.item.text, args.listing[i])]
    ELSE args.source.items

Homogeneous(items) ==
    \/ \A i \in 1..Len(items) : items[i].type = "Path"
    \/ \A i \in 1..Len(items) : items[i].type = "str"

\* the source is a directory or a homogeneous collection
WellShaped(args) ==
    IF args.source.single THEN IsDir(args.source.item.text)
    ELSE Homogeneous(args.source.items)

\* the positions of the candidates that fname_re matches
MatchedAt(args) ==
    {i \in 1..Len(SortCandidates(args)) :
        Search(PathName(SortCandidates(args)[i].text)).matched}

T0Of(id) == Search(PathName(id.text)).t0

\* the number written with the decimal digits s
RECURSIVE DigitsValue(_)
DigitsValue(s) ==
    IF Len(s) = 0 THEN 0
    ELSE 10 * DigitsValue(Sub(s, 1, Len(s) - 1))
         + (CHOOSE d \in 0..9 : DigitChars[d + 1] = s[Len(s)])

\* a < b as numbers, for two strings of T0Digits digits: the high halves
\* are compared, then the low halves, so that no value exceeds 32 bits
T0Less(a, b) ==
    LET h == T0Digits \div 2
        ha == DigitsValue(Sub(a, 1, h))
        hb == DigitsValue(Sub(b, 1, h))
        la == DigitsValue(Sub(a, h + 1, T0Digits))
        lb == DigitsValue(Sub(b, h + 1, T0Digits))
    IN ha < hb \/ (ha = hb /\ la < lb)

Grammatical(name) ==
    \E h1 \in 2..Len(name), n \in 1..MaxLengthDigits, suffix \in Suffixes :
        LET h2 == h1 + T0Digits + 1
            d  == h2 + n + 1
        IN /\ Len(name) = d + Len(suffix)
           /\ \A i \in 1..(h1 - 1) : IsPrefixChar(name[i])
           /\ name[h1] = "-"
           /\ \A i \in (h1 + 1)..(h2 - 1) : IsDigit(name[i])
           /\ name[h2] = "-"
           /\ IsLength(Sub(name, h2 + 1, d - 1))
           /\ name[d] = "."
           /\ Sub(name, d + 1, Len(name)) = suffix

\* C3: the sort of a directory or of a homogeneous collection returns
\* exactly the candidates whose terminal name follows the grammar, and the
\* empty list when none does
FilterExact ==
    (/\ Called("sort")
     /\ WellShaped(result.args)
     /\ ~result.args.return_matches) =>
        LET c == SortCandidates(result.args)
            good == {i \in 1..Len(c) : Grammatical(PathName(c[i].text))}
        IN /\ good = {} => result.out = Returns(<<>>)
           /\ result.out.status = "ok" =>
                 Range(result.out.value) = {c[i] : i \in good}

\* C4: the sort raises ValueError, and nothing else, for a single path
\* that is no directory and for a collection that mixes Path and str; the
\* error of the mixed collection carries the types
InputShapeRejection ==
    (Called("sort") /\ ~WellShaped(result.args)) =>
        /\ result.out.status = "ValueError"
        /\ ~result.args.source.single =>
              result.out.fmt =
                 <<[i \in 1..Len(result.args.source.items) |->
                      result.args.source.items[i].type]>>

\* C7: a read of an archive that lacks a requested channel raises the
\* ValueError that names the channel and the path, and returns nothing; a
\* read of channels that are all there returns them in the requested order
MissingChannel ==
    (/\ Called("read")
     /\ HasFile(fs, result.args.path)
     /\ FileAt(fs, result.args.path).kind = "hdf5") =>
        LET a == result.args
            have == Keys(FileAt(fs, a.path).datasets)
            missing == {i \in 1..Len(a.channels) : a.channels[i] \notin have}
        IN IF missing # {}
           THEN /\ result.out.status = "ValueError"
                /\ result.out.value = NoValue
                /\ \E i \in missing :
                      result.out.fmt = <<a.path.text, a.channels[i]>>
           ELSE /\ result.out.status = "ok"
                /\ Keys(result.out.value) = Range(a.channels)
                /\ \A i, j \in 1..Len(result.out.value) :
                      i < j =>
                        \E k \in 1..Len(a.channels) :
                           /\ a.channels[k] = result.out.value[i].key
                           /\ \A l \in 1..k :
                                 a.channels[l] # result.out.value[j].key

\* the duration of the first channel of an archive
DurationOf(f) ==
    TrueDiv(Len(f.datasets[1].value.data), f.datasets[1].value.sample_rate)

\* C8: a sort of the directory returns every archive that was written with
\* a whole duration from 1 to 9999, in ascending order of its t0
WriteThenSort ==
    (/\ Called("sort")
     /\ result.args.source.single
     /\ IsDir(result.args.source.item.text)
     /\ ~result.args.return_matches) =>
        /\ result.out.status = "ok"
        /\ \A n \in Archives(fs) :
              (/\ IsIntegral(DurationOf(fs[n]))
               /\ ToInt(DurationOf(fs[n])) \in 1..9999) =>
                 JoinPath(WriteDir, n) \in Range(result.out.value)
        /\ \A i \in 1..(Len(result.out.value) - 1) :
              ~T0Less(T0Of(result.out.value[i + 1]),
                      T0Of(result.out.value[i]))

\* C10: the sort of a homogeneous collection returns every matching entry,
\* repeated entries and entries of one t0 included, in the order of t0
\* and, for one t0, in the order of the identifiers
Ties ==
    (/\ Called("sort")
     /\ ~result.args.source.single
     /\ Homogeneous(result.args.source.items)
     /\ ~result.args.return_matches) =>
        LET v == result.out.value
        IN /\ result.out.status = "ok"
           /\ Len(v) = Cardinality(MatchedAt(result.args))
           /\ Range(v) = {SortCandidates(result.args)[i] :
                            i \in MatchedAt(result.args)}
           /\ \A i \in 1..(Len(v) - 1) :
                 \/ T0Less(T0Of(v[i]), T0Of(v[i + 1]))
                 \/ /\ T0Of(v[i]) = T0Of(v[i + 1])
                    /\ ~IdLT(v[i + 1], v[i])
====
